---------------------------- MODULE Spec2Model ----------------------------
(***************************************************************************)
(* Model of the SD Motion Generator.                                       *)
(*                                                                         *)
(* The front end (sd-motion-generator/src/app/page.js, component Home) is  *)
(* modelled from its code: the four React state cells, the submit handler  *)
(* handleSubmit split at its two awaits, and the formatter it applies to   *)
(* the returned text.  The generation back end behind                      *)
(* POST /api/generate-motion is not part of the available sources; its     *)
(* retry policy is modelled from the specification (section 4.3) and kept  *)
(* in the definitions whose names start with Gen.                          *)
(*                                                                         *)
(* Texts are sequences of UTF-16 code units, as JavaScript strings are.    *)
(***************************************************************************)
EXTENDS Integers, Sequences, FiniteSets, TLC

VARIABLES
    topic,      \* page.js:7   useState('')   the topic input's value
    motion,     \* page.js:8   useState('')   the motion shown to the user
    isLoading,  \* page.js:9   useState(false)
    error,      \* page.js:10  useState('')   the error shown to the user
    data,       \* page.js:28  the body parsed by res.json() in the current call
    engine,     \* the JavaScript engine the page runs on
    pending     \* the calls of handleSubmit suspended at an await, each with
                \* its request, the back end's work on it and its response

vars == <<topic, motion, isLoading, error, data, engine, pending>>

----------------------------------------------------------------------------
(* Bounds of the model.                                                    *)

MaxLen == 5         \* longest text given to the formatter on its own
MaxBodyLen == 3     \* longest response text in the runs of the whole page

NL == 10            \* "\n"
Dot == 46           \* "."
Comma == 44         \* ","
Digits == 48..57    \* "0" .. "9", the characters \d matches

\* The code units String.prototype.trim strips: WhiteSpace and LineTerminator
\* of ECMAScript (tab, LF, VT, FF, CR, space, no-break space, the Unicode
\* space separators, line and paragraph separator, byte order mark).
Whitespace ==
    (9..13) \cup {32, 160, 5760} \cup (8192..8202)
        \cup {8232, 8233, 8239, 8287, 12288, 65279}

Chars == {49, Dot, NL}          \* characters of the response texts: "1" "." "\n"

SeqsUpTo(S, n) == UNION {[1..k -> S] : k \in 0..n}

Texts == SeqsUpTo(Chars, MaxLen)

\* The values typed or pasted into the topic input: empty; blank by a space,
\* a form feed, a no-break space or an ideographic space; "a"; "a" after a
\* space; "a" before a no-break space.
Topics ==
    {<<>>, <<32>>, <<12>>, <<160>>, <<12288>>, <<97>>, <<32, 97>>, <<97, 160>>}

\* The engines whose error texts are modelled: V8 as in Node 18 and as in
\* Node 20.
Engines == {"node18", "node20"}

----------------------------------------------------------------------------
(* The formatter: page.js lines 29-31.                                     *)

IsDigit(c) == c \in Digits

\* The end of the maximal run of characters of S that starts at i: the least
\* j >= i with j past the end of s or s[j] outside S (a greedy c+ in a regex).
RECURSIVE RunEnd(_, _, _)
RunEnd(s, i, S) ==
    IF i > Len(s) \/ s[i] \notin S THEN i ELSE RunEnd(s, i + 1, S)

\* s.replace(/\n\n+/g, '\n\n') from position i on.
RECURSIVE CollapseFrom(_, _)
CollapseFrom(s, i) ==
    IF i > Len(s) THEN <<>>
    ELSE IF s[i] = NL /\ i + 1 <= Len(s) /\ s[i + 1] = NL
         THEN <<NL, NL>> \o CollapseFrom(s, RunEnd(s, i, {NL}))
         ELSE <<s[i]>> \o CollapseFrom(s, i + 1)

\* A bug the collapse could have: paragraphs joined by a single newline.
RECURSIVE CollapseToOneFrom(_, _)
CollapseToOneFrom(s, i) ==
    IF i > Len(s) THEN <<>>
    ELSE IF s[i] = NL /\ i + 1 <= Len(s) /\ s[i + 1] = NL
         THEN <<NL>> \o CollapseToOneFrom(s, RunEnd(s, i, {NL}))
         ELSE <<s[i]>> \o CollapseToOneFrom(s, i + 1)

CollapseNewlines_Single(s) == CollapseToOneFrom(s, 1)

CollapseNewlines(s) == CollapseFrom(s, 1)

\* s.replace(/(\d+)\.(\d+)/g, '$1,$2') from position i on.  A match starts at
\* the first digit of a digit run that is followed by a dot and a digit; it
\* takes the whole digit run after the dot, and the scan resumes after it.
RECURSIVE DecimalFrom(_, _)
DecimalFrom(s, i) ==
    IF i > Len(s) THEN <<>>
    ELSE IF IsDigit(s[i])
         THEN LET j == RunEnd(s, i, Digits)
              IN  IF j + 1 <= Len(s) /\ s[j] = Dot /\ IsDigit(s[j + 1])
                  THEN LET k == RunEnd(s, j + 1, Digits)
                       IN  SubSeq(s, i, j - 1) \o <<Comma>> \o SubSeq(s, j + 1, k - 1)
                              \o DecimalFrom(s, k)
                  ELSE SubSeq(s, i, j - 1) \o DecimalFrom(s, j)
         ELSE <<s[i]>> \o DecimalFrom(s, i + 1)

DecimalComma(s) == DecimalFrom(s, 1)

FormatMotion(raw) == DecimalComma(CollapseNewlines(raw))

\* String.prototype.trim
RECURSIVE TrimStart(_)
TrimStart(s) ==
    IF s # <<>> /\ Head(s) \in Whitespace THEN TrimStart(Tail(s)) ELSE s

RECURSIVE TrimEnd(_)
TrimEnd(s) ==
    IF s # <<>> /\ s[Len(s)] \in Whitespace
    THEN TrimEnd(SubSeq(s, 1, Len(s) - 1)) ELSE s

Trim(s) == TrimEnd(TrimStart(s))

----------------------------------------------------------------------------
(* The generation back end, from the specification: section 4.3            *)
(* (GenerationClient), section 6 (boundary) and section 7 (error kinds).   *)

MaxAttempts == 3    \* N, the configured number of attempts (default 3)

\* What one attempt against the AI back end can end in.  Status 0 stands for
\* an attempt that got no response: connection refused or reset, or timeout.
GenOutcomes ==
    { [status |-> 200, message |-> "ok"],
      [status |-> 400, message |-> "bad request"],
      [status |-> 503, message |-> "overloaded"],
      [status |-> 0,   message |-> "timeout"] }

NoError == [kind |-> "none", status |-> 0, message |-> ""]

\* Attempting(0): nothing tried yet; log holds one event per attempt.
GenInit == [state |-> "Attempting", log |-> <<>>, error |-> NoError]

\* A bug the retry policy could have: a 4xx response retried like a 5xx.
GenRetryable_All(o) == o.status # 200

\* Transport failures, timeouts and 5xx responses are retried; 4xx are not.
GenRetryable(o) == o.status = 0 \/ o.status \in 500..599

\* A bug the retry policy could have: one attempt too many.
GenExhausted_OffByOne(n) == n > MaxAttempts

GenExhausted(n) == n >= MaxAttempts

\* Attempting(n) -> Success | Attempting(n+1) | Rejected | Unavailable
GenStep(g, o) ==
    LET log2 == Append(g.log, o)
    IN  IF o.status \in 200..299
        THEN [state |-> "Success", log |-> log2, error |-> NoError]
        ELSE IF ~GenRetryable(o)
        THEN [state |-> "Rejected", log |-> log2,
              error |-> [kind |-> "GenerationRejected", status |-> o.status,
                         message |-> o.message]]
        ELSE IF GenExhausted(Len(log2))
        THEN [state |-> "Unavailable", log |-> log2,
              error |-> [kind |-> "GenerationUnavailable", status |-> 503,
                         message |-> "generation backend unavailable"]]
        ELSE [state |-> "Attempting", log |-> log2, error |-> NoError]

\* The request is answered: the back end keeps nothing of it.
GenDone == [state |-> "Done", log |-> <<>>, error |-> NoError]

\* The boundary's answer: {motion} on success, else the structured error.
GenResponse(g) ==
    IF g.state = "Success"
    THEN [status |-> 200, kind |-> "none", message |-> ""]
    ELSE [status |-> g.error.status, kind |-> g.error.kind,
          message |-> g.error.message]

----------------------------------------------------------------------------
(* The page: sd-motion-generator/src/app/page.js.                          *)

NoRes == [status |-> 0, kind |-> "none", message |-> ""]   \* no response yet

\* The values of data: not assigned yet, or what res.json() resolved to, by
\* what data.motion is: a string (is = "string", with its text), undefined
\* (data is an object, array or primitive without that field), null, a value
\* of another type (number, boolean, array), or nothing because data itself
\* is null (is = "nullBody").
NoData == [is |-> "unassigned", motion |-> <<>>]
NonTexts == {"undefined", "null", "other", "nullBody"}

IsText(d) == d.is = "string"

BodiesOf(T) ==
    {[is |-> "string", motion |-> t] : t \in T}
        \cup {[is |-> k, motion |-> <<>>] : k \in NonTexts}

Bodies == BodiesOf(SeqsUpTo(Chars, MaxBodyLen))
FormatBodies == BodiesOf(Texts)

\* The message of the error handleSubmit throws itself.
GenericMessage == "Något gick fel vid generering av motionen"

\* The message of the TypeError a rejected fetch carries.
FetchErrorMessage(e) == "fetch failed"

\* The ways res.json() rejects that are modelled, by the body received: an
\* empty body, an HTML page, plain text, JSON followed by other characters,
\* single-quoted JSON, and a body stream that broke off after the headers.
JsonFailures == {"empty", "html", "text", "trailing", "quoted", "terminated"}

\* The message res.json() rejects with, by engine e and failure c, for the
\* bodies "", "<html>", "Internal Server Error", "{\"motion\":\"1\"} x" and
\* "{'motion':'1'}".
JsonErrorMessage(e, c) ==
    CASE c = "empty" -> "Unexpected end of JSON input"
      [] c = "terminated" -> "terminated"
      [] c = "html" ->
            IF e = "node18" THEN "Unexpected token < in JSON at position 0"
            ELSE "Unexpected token '<', \"<html>\" is not valid JSON"
      [] c = "text" ->
            IF e = "node18" THEN "Unexpected token I in JSON at position 0"
            ELSE "Unexpected token 'I', \"Internal S\"... is not valid JSON"
      [] c = "trailing" ->
            IF e = "node18" THEN "Unexpected token x in JSON at position 15"
            ELSE "Unexpected non-whitespace character after JSON at position 15"
      [] c = "quoted" ->
            IF e = "node18" THEN "Unexpected token ' in JSON at position 1"
            ELSE "Expected property name or '}' in JSON at position 1"

\* The message of the TypeError data.motion.replace(...) throws on a parsed
\* body d whose motion is not a string (the same on both engines).
TypeErrorMessage(e, d) ==
    CASE d.is = "nullBody" -> "Cannot read properties of null (reading 'motion')"
      [] d.is = "undefined" -> "Cannot read properties of undefined (reading 'replace')"
      [] d.is = "null" -> "Cannot read properties of null (reading 'replace')"
      [] d.is = "other" -> "data.motion.replace is not a function"

\* Response.ok, read at page.js:24.
Ok_Always(res) == TRUE

Ok(res) == res.status \in 200..299

\* <input ... disabled={isLoading}>
InputEnabled == ~isLoading

\* A bug the button could have: not disabled while a request is running.
SubmitEnabled_NoLoadingCheck == Trim(topic) # <<>>

\* <button type="submit" disabled={isLoading || !topic.trim()}>
SubmitEnabled == ~(isLoading \/ Trim(topic) = <<>>)

\* fetch(url, {method: 'POST', body: JSON.stringify({ topic })})
NewCall(t) == [topic |-> t, await |-> "fetch", gen |-> GenInit, res |-> NoRes]

Remove(q, i) == SubSeq(q, 1, i - 1) \o SubSeq(q, i + 1, Len(q))

\* catch (err) { setError(err.message); ... }
Catch(message) == error' = message

\* A bug the handler could have: the loading flag never reset.
Finally_KeepLoading(i) == isLoading' = isLoading /\ pending' = Remove(pending, i)

\* finally { setIsLoading(false); } and the call returns
Finally(i) == isLoading' = FALSE /\ pending' = Remove(pending, i)

Init ==
    /\ topic = <<>>
    /\ motion = <<>>
    /\ isLoading = FALSE
    /\ error = ""
    /\ data = NoData
    /\ engine \in Engines
    /\ pending = <<>>

\* onChange={(e) => setTopic(e.target.value)}
SetTopic(t) ==
    /\ InputEnabled
    /\ t # topic
    /\ topic' = t
    /\ UNCHANGED <<motion, isLoading, error, data, pending, engine>>

\* handleSubmit up to its first await: the request is sent.
HandleSubmit ==
    /\ SubmitEnabled
    /\ isLoading' = TRUE
    /\ error' = ""
    /\ pending' = Append(pending, NewCall(topic))
    /\ data' = NoData
    /\ UNCHANGED <<topic, motion, engine>>

\* The back end makes one attempt against the AI service.
GenAttempt(i, o) ==
    /\ pending[i].await = "fetch"
    /\ pending[i].res = NoRes
    /\ pending[i].gen.state = "Attempting"
    /\ pending' = [pending EXCEPT ![i].gen = GenStep(@, o)]
    /\ UNCHANGED <<topic, motion, isLoading, error, data, engine>>

\* The back end answers the request.
GenRespond(i) ==
    /\ pending[i].await = "fetch"
    /\ pending[i].res = NoRes
    /\ pending[i].gen.state \in {"Success", "Rejected", "Unavailable"}
    /\ pending' = [pending EXCEPT ![i].res = GenResponse(pending[i].gen),
                                  ![i].gen = GenDone]
    /\ UNCHANGED <<topic, motion, isLoading, error, data, engine>>

\* await fetch(...) rejects: no response reached the page.
FetchReject(i) ==
    /\ pending[i].await = "fetch"
    /\ pending[i].res = NoRes
    /\ Catch(FetchErrorMessage(engine))
    /\ Finally(i)
    /\ UNCHANGED <<topic, motion, data, engine>>

\* await fetch(...) resolves with res.ok: the handler goes on to res.json().
FetchResolveOk(i) ==
    /\ pending[i].await = "fetch"
    /\ pending[i].res # NoRes
    /\ Ok(pending[i].res)
    /\ pending' = [pending EXCEPT ![i].await = "json"]
    /\ UNCHANGED <<topic, motion, isLoading, error, data, engine>>

\* await fetch(...) resolves with !res.ok: throw new Error(...).
FetchResolveNotOk(i) ==
    /\ pending[i].await = "fetch"
    /\ pending[i].res # NoRes
    /\ ~Ok(pending[i].res)
    /\ Catch(GenericMessage)
    /\ Finally(i)
    /\ UNCHANGED <<topic, motion, data, engine>>

\* await res.json() resolves with d: format and show, or fail on d.motion.
JsonResolve(i, d) ==
    /\ pending[i].await = "json"
    /\ data' = d
    /\ IF IsText(d)
       THEN motion' = FormatMotion(d.motion) /\ error' = error
       ELSE motion' = motion /\ Catch(TypeErrorMessage(engine, d))
    /\ Finally(i)
    /\ UNCHANGED <<topic, engine>>

\* await res.json() rejects by failure c: the body is not JSON, or did not
\* arrive.
JsonReject(i, c) ==
    /\ pending[i].await = "json"
    /\ Catch(JsonErrorMessage(engine, c))
    /\ Finally(i)
    /\ UNCHANGED <<topic, motion, data, engine>>

Next ==
    \/ \E t \in Topics : SetTopic(t)
    \/ HandleSubmit
    \/ \E i \in DOMAIN pending : \E o \in GenOutcomes : GenAttempt(i, o)
    \/ \E i \in DOMAIN pending : GenRespond(i)
    \/ \E i \in DOMAIN pending : FetchReject(i)
    \/ \E i \in DOMAIN pending : FetchResolveOk(i)
    \/ \E i \in DOMAIN pending : FetchResolveNotOk(i)
    \/ \E i \in DOMAIN pending : \E d \in Bodies : JsonResolve(i, d)
    \/ \E i \in DOMAIN pending : \E c \in JsonFailures : JsonReject(i, c)

\* Every continuation of a running call and every step of the back end.
Progress ==
    \E i \in DOMAIN pending :
        \/ \E o \in GenOutcomes : GenAttempt(i, o)
        \/ GenRespond(i)
        \/ FetchReject(i)
        \/ FetchResolveOk(i)
        \/ FetchResolveNotOk(i)
        \/ \E d \in Bodies : JsonResolve(i, d)
        \/ \E c \in JsonFailures : JsonReject(i, c)

Spec == Init /\ [][Next]_vars

\* The request and its response settle: the back end and the promises of
\* fetch and res.json() do not hang.
LiveSpec == Spec /\ WF_vars(Progress)

\* The formatter on its own: the page as it is when the first call for the
\* topic "a" got an OK response and waits for res.json(), which then resolves
\* with any body whose text is no longer than MaxLen.
FormatInit ==
    /\ topic = <<97>>
    /\ motion = <<>>
    /\ isLoading = TRUE
    /\ error = ""
    /\ data = NoData
    /\ engine \in Engines
    /\ pending = << [topic |-> <<97>>, await |-> "json", gen |-> GenDone,
                     res |-> [status |-> 200, kind |-> "none", message |-> ""]] >>

FormatNext == \E i \in DOMAIN pending : \E d \in FormatBodies : JsonResolve(i, d)

FormatSpec == FormatInit /\ [][FormatNext]_vars

----------------------------------------------------------------------------
(* Properties.                                                             *)

Min(a, b) == IF a < b THEN a ELSE b

StripNewlines(s) == SelectSeq(s, LAMBDA c : c # NL)

\* The lengths of the maximal runs of newlines of s, from position i on.
RECURSIVE NewlineRuns(_, _)
NewlineRuns(s, i) ==
    IF i > Len(s) THEN <<>>
    ELSE IF s[i] = NL
         THEN LET e == RunEnd(s, i, {NL}) IN <<e - i>> \o NewlineRuns(s, e)
         ELSE NewlineRuns(s, i + 1)

NoTripleNewline(s) ==
    \A j \in 1..(Len(s) - 2) : ~(s[j] = NL /\ s[j + 1] = NL /\ s[j + 2] = NL)

HasTripleNewline(s) == ~NoTripleNewline(s)

\* s[j] is a dot with a digit on each side.
DotBetweenDigits(s, j) ==
    /\ 1 < j /\ j < Len(s)
    /\ s[j] = Dot
    /\ IsDigit(s[j - 1]) /\ IsDigit(s[j + 1])

\* The first position of the maximal run of characters of S that ends at j.
RECURSIVE RunStart(_, _, _)
RunStart(s, j, S) ==
    IF j < 1 \/ s[j] \notin S THEN j + 1 ELSE RunStart(s, j - 1, S)

\* s[j] is the dot of a token of the exact shape digits.digits: the digit
\* group before it does not follow another digits-dot, and the digit group
\* after it is not followed by another dot-digits.
ExactDecimalDot(s, j) ==
    /\ DotBetweenDigits(s, j)
    /\ LET a == RunStart(s, j - 1, Digits)
           b == RunEnd(s, j + 1, Digits)
       IN  /\ ~DotBetweenDigits(s, a - 1)
           /\ ~DotBetweenDigits(s, b)

\* C1: the formatter is idempotent: formatting the formatted text of any
\* response gives the formatted text again, format(format(x)) = format(x).
C1_FormatIdempotent ==
    IsText(data) =>
        FormatMotion(FormatMotion(data.motion)) = FormatMotion(data.motion)

\* C2: the decimal rewrite changes a character only where it is the dot of a
\* token of the exact shape digits.digits; the dots of a token with more than
\* one dot between digit groups (1.2.3) are left as they are.
C2_OnlyExactDecimals ==
    IsText(data) =>
        LET x == CollapseNewlines(data.motion)
        IN  /\ Len(motion) = Len(x)
            /\ \A j \in 1..Len(x) : motion[j] # x[j] => ExactDecimalDot(x, j)

\* C3: the collapse leaves no three consecutive newlines, neither after it
\* nor in the motion shown; a run of one newline stays one, a run of two or
\* more becomes exactly two, and the text outside the runs is unchanged.
C3_CollapseBlankLines ==
    IsText(data) =>
        LET c == CollapseNewlines(data.motion)
            runs == NewlineRuns(data.motion, 1)
        IN  /\ NoTripleNewline(c)
            /\ NoTripleNewline(motion)
            /\ StripNewlines(c) = StripNewlines(data.motion)
            /\ NewlineRuns(c, 1) = [k \in DOMAIN runs |-> Min(runs[k], 2)]

\* A response with a run of three newlines and text around it was formatted.
C3_Witness ==
    /\ IsText(data)
    /\ HasTripleNewline(data.motion)
    /\ StripNewlines(data.motion) # <<>>
    /\ motion = FormatMotion(data.motion)
    /\ Len(motion) < Len(data.motion)

\* C4: a request that fails surfaces one error and delivers no motion: the
\* step that ends it with an error leaves the motion alone, a call whose
\* response is not OK never goes on to read the body, and a body is only
\* formatted for a call that got an OK response and leaves the error empty.
C4_FailureAborts ==
    [][ /\ (Len(pending') < Len(pending) /\ error' # "") =>
               (motion' = motion /\ ~IsText(data'))
        /\ \A i \in DOMAIN pending :
               (pending[i].res # NoRes /\ pending[i].res.status \notin 200..299) =>
                   /\ Len(pending') < Len(pending)
                   /\ error' # ""
        /\ (motion' # motion \/ (IsText(data') /\ ~IsText(data))) =>
               /\ error' = ""
               /\ \E i \in DOMAIN pending :
                      /\ pending[i].await = "json"
                      /\ pending[i].res.status \in 200..299
      ]_vars

\* A request failed on a non-OK response after an earlier one had succeeded:
\* the error is shown and the earlier motion is still there.
C4_Witness ==
    /\ pending = <<>>
    /\ error = GenericMessage
    /\ ~IsText(data)
    /\ motion # <<>>

\* C5: the generation call never makes more than N attempts, and while every
\* attempt so far ended in a transport failure, a timeout or a 5xx response
\* it keeps attempting until the N-th, after which it has failed with
\* GenerationUnavailable (not GenerationRejected).
C5_RetriesExactlyN ==
    \A i \in DOMAIN pending :
        LET g == pending[i].gen
        IN  g.state # "Done" =>
              /\ Len(g.log) <= MaxAttempts
              /\ (g.error.kind = "GenerationUnavailable" => Len(g.log) = MaxAttempts)
              /\ (\A k \in DOMAIN g.log :
                      g.log[k].status = 0 \/ g.log[k].status \in 500..599) =>
                    IF Len(g.log) < MaxAttempts
                    THEN g.state = "Attempting"
                    ELSE /\ g.state = "Unavailable"
                         /\ g.error.kind = "GenerationUnavailable"
                         /\ g.error.kind # "GenerationRejected"

\* Three attempts failed on the transport or with a 5xx: the call has given up.
C5_Witness ==
    \E i \in DOMAIN pending :
        /\ pending[i].gen.state = "Unavailable"
        /\ Len(pending[i].gen.log) = MaxAttempts

\* C6: a 4xx response is the last attempt of its call: the call is then
\* GenerationRejected with the status and message of that response, whatever
\* the number of attempts made before it.
C6_RejectedImmediately ==
    \A i \in DOMAIN pending :
        LET g == pending[i].gen
        IN  /\ \A k \in DOMAIN g.log :
                   g.log[k].status \in 400..499 =>
                       /\ k = Len(g.log)
                       /\ g.state = "Rejected"
                       /\ g.error = [kind |-> "GenerationRejected",
                                     status |-> g.log[k].status,
                                     message |-> g.log[k].message]
            /\ g.state = "Rejected" =>
                   /\ g.log # <<>>
                   /\ g.log[Len(g.log)].status \in 400..499

\* A 4xx response came on the second attempt, after a retried failure.
C6_Witness ==
    \E i \in DOMAIN pending :
        /\ pending[i].gen.state = "Rejected"
        /\ Len(pending[i].gen.log) = 2
        /\ Len(pending[i].gen.log) < MaxAttempts

\* C7: every request sent carries a topic that is trimmed and not empty.
C7_TopicTrimmed ==
    \A i \in DOMAIN pending :
        /\ pending[i].topic # <<>>
        /\ pending[i].topic = Trim(pending[i].topic)

\* C8: when a call ends on a non-OK response, the error shown to the user is
\* the message of the error the back end answered with.
C8_ErrorVerbatim ==
    [][ \A i \in DOMAIN pending :
            ( /\ pending[i].res # NoRes
              /\ pending[i].res.status \notin 200..299
              /\ Len(pending') < Len(pending) ) =>
                error' = pending[i].res.message
      ]_vars

\* C9: a submission always ends: isLoading returns to false, and the step
\* that resets it either has shown the formatted text of the parsed body with
\* no error, or has shown a non-empty error and left the motion alone.
C9_SubmissionTerminates ==
    /\ isLoading ~> ~isLoading
    /\ [][ (isLoading /\ ~isLoading') =>
              \/ /\ error' = ""
                 /\ IsText(data')
                 /\ motion' = FormatMotion(data'.motion)
              \/ /\ error' # ""
                 /\ ~IsText(data')
                 /\ motion' = motion
         ]_vars

\* A submission has ended with a formatted motion, another with an error.
C9_Witness ==
    /\ ~isLoading
    /\ pending = <<>>
    /\ \/ IsText(data) /\ motion # <<>> /\ error = ""
       \/ /\ data.is = "nullBody"
          /\ error = TypeErrorMessage(engine, data)

\* C10: at most one request is in flight, and exactly while isLoading is true;
\* while it is, nothing can be submitted.
C10_SingleFlight ==
    /\ Len(pending) <= 1
    /\ isLoading <=> (pending # <<>>)
    /\ isLoading => ~SubmitEnabled

\* A request is in flight while the topic in the input is submittable.
C10_Witness ==
    /\ isLoading
    /\ Len(pending) = 1
    /\ Trim(topic) # <<>>

============================================================================
